---- MODULE Spec2Model ----
(***************************************************************************)
(* A model of sampling::SamplerT<T, Y> (src/Sampling.h): a vector of       *)
(* samples kept to a target length by fit(), and a map from size_t ids to  *)
(* std::function<Y()> processes.                                           *)
(*                                                                         *)
(* T is modelled by the integers 0..MaxVal with T() = 0.  A std::function  *)
(* is modelled by its name: "nullptr" is the empty function, "fSize" and   *)
(* "fSum" are two callables that read the sampler they were registered     *)
(* on (the library's intended use) and return a Y, modelled as a natural.  *)
(*                                                                         *)
(* The variables last, pre and pushed are history variables: they record   *)
(* the call that produced the current state, the object's fields before    *)
(* that call, and the run of consecutive pushBack arguments.  They never   *)
(* influence the object's fields.                                          *)
(*                                                                         *)
(* The variable other holds the fields of a second SamplerT, the one the   *)
(* copy constructor and operator= work with; otherPre is its history, and  *)
(* calls counts the calls made on the pair.  CopySpec is the specification *)
(* of the pair; under Spec there is one sampler and other is never used.   *)
(***************************************************************************)
EXTENDS Integers, Sequences, FiniteSets

VARIABLES mNumSamples, mSamples, mProcessMap, crashed, last, pre, pushed,
          other, otherPre, calls

vars == <<mNumSamples, mSamples, mProcessMap, crashed, last, pre, pushed,
          other, otherPre, calls>>

\* ---------------------------------------------------------------- bounds
\* Largest numSamples argument given to the constructor and setNumSamples.
MaxCap == 3
\* Sample values are 0..MaxVal.
MaxVal == 1
\* Calls made on a sampler and its copy after the copy is taken.
MaxCopyCalls == 1
\* Largest capacity of a sampler that is copied.
MaxCopyCap == 2
\* T(): the value-initialised sample fit() pads with.
Default == 0

Values == 0..MaxVal
\* The size_t ids the owner registers processes under.
Ids == {5, 7}
Caps == 0..MaxCap
\* The numSamples of a sampler that is copied, and of its copy.
CopyCaps == 0..MaxCopyCap
\* Indexes offered to eraseSample and insertSample: in range and past the end.
Indexes == 0..(MaxCap + 1)
\* How many consecutive pushBack arguments the history remembers.
MaxPush == MaxCap + 1

\* std::function<Y()> values: the empty function and two callables.
Funcs == {"nullptr", "fSize", "fSum"}

\* ---------------------------------------------------------------- helpers
RECURSIVE Sum(_)
Sum(s) == IF s = <<>> THEN 0 ELSE Head(s) + Sum(Tail(s))

\* Invoking a callable std::function: the Y it returns, computed from the samples.
Invoke(func, samples) ==
    IF func = "fSize" THEN Len(samples) ELSE Sum(samples)

\* count copies of T()
Defaults(count) == [i \in 1..count |-> Default]

\* Clamp without the test: mNumSamples is left as given.
ClampMissing(n) == n

\* fit(), first statement: mNumSamples is raised to 1 when below it.
Clamp(n) == IF n < 1 THEN 1 ELSE n

\* TrimFront with if for while: at most one element is erased.
TrimFrontOnce(s, n) == IF Len(s) > n THEN Tail(s) ELSE s

\* TrimFront erasing at the other end: pop_back while the vector is too long.
TrimBack(s, n) == IF Len(s) > n THEN SubSeq(s, 1, n) ELSE s

\* fit(), the while loop: erase mSamples.begin() while the vector is too long.
RECURSIVE TrimFront(_, _)
TrimFront(s, n) == IF Len(s) > n THEN TrimFront(Tail(s), n) ELSE s

\* PadFront with a single insert: one T() however many are missing.
PadFrontOnce(s, n) == IF Len(s) < n THEN <<Default>> \o s ELSE s

\* PadFront inserting at the other end: count copies of T() at mSamples.end().
PadBack(s, n) == IF Len(s) < n THEN s \o Defaults(n - Len(s)) ELSE s

\* fit(), the last statement: insert count copies of T() at mSamples.begin().
PadFront(s, n) == IF Len(s) < n THEN Defaults(n - Len(s)) \o s ELSE s

\* fit() without its last statement: the vector is trimmed, never padded.
fitTrimOnly(n, s) ==
    LET c == Clamp(n)
    IN  [mNumSamples |-> c, mSamples |-> TrimFront(s, c)]

\* fit() on a sampler with mNumSamples = n and mSamples = s: the two fields after.
fit(n, s) ==
    LET c == Clamp(n)
    IN  [mNumSamples |-> c, mSamples |-> PadFront(TrimFront(s, c), c)]

\* push_back putting v at the wrong end.
push_front(s, v) == <<v>> \o s

\* std::vector::push_back( v )
push_back(s, v) == Append(s, v)

\* EraseAt dropping the offset: erase( begin() ).
EraseBegin(s, index) == Tail(s)

\* std::vector::erase( begin() + index ), index < size
EraseAt(s, index) == SubSeq(s, 1, index) \o SubSeq(s, index + 2, Len(s))

\* std::vector::insert( begin() + index, v ), index <= size
InsertAt(s, index, v) == SubSeq(s, 1, index) \o <<v>> \o SubSeq(s, index + 1, Len(s))

\* MapSet as std::map::insert: an entry already at index is kept.
MapInsert(m, index, func) ==
    [i \in (DOMAIN m) \cup {index} |-> IF i \in DOMAIN m THEN m[i] ELSE func]

\* std::map::operator[]( index ) = func
MapSet(m, index, func) ==
    [i \in (DOMAIN m) \cup {index} |-> IF i = index THEN func ELSE m[i]]

\* std::map::erase( index )
MapErase(m, index) == [i \in (DOMAIN m) \ {index} |-> m[i]]

\* std::map::clear()
EmptyMap == [i \in {} |-> "nullptr"]

\* ---------------------------------------------------------------- history
\* The fields of the object, as recorded in pre.
Fields == [mNumSamples |-> mNumSamples, mSamples |-> mSamples, mProcessMap |-> mProcessMap]

\* The name and arguments of a call, as kept in last.prior.
Brief(l) == [op |-> l.op, index |-> l.index, n |-> l.n, func |-> l.func]

\* No call.
NoCall == [op |-> "none", index |-> 0, n |-> 0, func |-> "none"]

\* The pairs <<call before, call>> whose first call the history keeps.
Pairs ==
    {<<"setProcess", "runProcess">>, <<"process", "runProcess">>,
     <<"clearSamples", "setNumSamples">>, <<"setNumSamples", "setNumSamples">>}

\* The call made before a call to op, when the pair is one of Pairs.
Prior(op) == IF <<last.op, op>> \in Pairs THEN Brief(last) ELSE NoCall

\* A record of one call: its name, its arguments (0 / "none" where it has none),
\* the exception it threw ("none" when it returned), the value it returned, the
\* ids of the processes it invoked, and the call made before it.
Call(op, index, n, v, func, exc, ret, invoked) ==
    [op |-> op, index |-> index, n |-> n, v |-> v, func |-> func,
     exc |-> exc, ret |-> ret, invoked |-> invoked, prior |-> Prior(op)]

\* The sliding record of consecutive pushBack arguments.
Remember(v) ==
    IF Len(pushed) < MaxPush THEN Append(pushed, v) ELSE Append(Tail(pushed), v)

\* ---------------------------------------------------------------- construction
\* SamplerT( size_t numSamples = 2 ): stores numSamples; fit() is not called.
Init ==
    /\ mNumSamples \in Caps
    /\ mSamples = <<>>
    /\ mProcessMap = EmptyMap
    /\ crashed = FALSE
    /\ last = [op |-> "SamplerT", index |-> 0, n |-> mNumSamples, v |-> 0,
               func |-> "none", exc |-> "none", ret |-> 0, invoked |-> <<>>,
               prior |-> NoCall]
    /\ pre = [mNumSamples |-> mNumSamples, mSamples |-> <<>>, mProcessMap |-> EmptyMap]
    /\ pushed = <<>>
    /\ other = [mNumSamples |-> 0, mSamples |-> <<>>, mProcessMap |-> EmptyMap]
    /\ otherPre = other
    /\ calls = 0

\* ---------------------------------------------------------------- sample operations
setNumSamples(numSamples) ==
    /\ ~crashed
    /\ LET f == fit(numSamples, mSamples)
       IN  /\ mNumSamples' = f.mNumSamples
           /\ mSamples' = f.mSamples
    /\ last' = Call("setNumSamples", 0, numSamples, 0, "none", "none", 0, <<>>)
    /\ pre' = Fields
    /\ pushed' = <<>>
    /\ UNCHANGED <<mProcessMap, crashed>>

getNumSamples ==
    /\ ~crashed
    /\ last' = Call("getNumSamples", 0, 0, 0, "none", "none", mNumSamples, <<>>)
    /\ pre' = Fields
    /\ pushed' = <<>>
    /\ UNCHANGED <<mNumSamples, mSamples, mProcessMap, crashed>>

clearSamples ==
    /\ ~crashed
    /\ mSamples' = <<>>
    /\ last' = Call("clearSamples", 0, 0, 0, "none", "none", 0, <<>>)
    /\ pre' = Fields
    /\ pushed' = <<>>
    /\ UNCHANGED <<mNumSamples, mProcessMap, crashed>>

eraseSample(index) ==
    /\ ~crashed
    /\ mSamples' = IF Len(mSamples) > index THEN EraseAt(mSamples, index) ELSE mSamples
    /\ last' = Call("eraseSample", index, 0, 0, "none", "none", 0, <<>>)
    /\ pre' = Fields
    /\ pushed' = <<>>
    /\ UNCHANGED <<mNumSamples, mProcessMap, crashed>>

\* insertSample with index <= size: the insertion, then fit().
insertSampleInRange(index, v) ==
    /\ ~crashed
    /\ index <= Len(mSamples)
    /\ LET f == fit(mNumSamples, InsertAt(mSamples, index, v))
       IN  /\ mNumSamples' = f.mNumSamples
           /\ mSamples' = f.mSamples
    /\ last' = Call("insertSample", index, 0, v, "none", "none", 0, <<>>)
    /\ pre' = Fields
    /\ pushed' = <<>>
    /\ UNCHANGED <<mProcessMap, crashed>>

\* insertSample with index > size: begin() + index is past end(), which
\* std::vector::insert leaves undefined.  The outcomes modelled are the process
\* dying inside insert, the vector coming back unchanged, and the vector coming
\* back one longer with an indeterminate value g at its end; fit() runs in the
\* last two.
insertSampleUndefined(index, v) ==
    /\ ~crashed
    /\ index > Len(mSamples)
    /\ \/ /\ crashed' = TRUE
          /\ UNCHANGED <<mNumSamples, mSamples>>
       \/ /\ crashed' = FALSE
          /\ \E s \in {mSamples} \cup {Append(mSamples, g) : g \in Values} :
                LET f == fit(mNumSamples, s)
                IN  /\ mNumSamples' = f.mNumSamples
                    /\ mSamples' = f.mSamples
    /\ last' = Call("insertSample", index, 0, v, "none", "none", 0, <<>>)
    /\ pre' = Fields
    /\ pushed' = <<>>
    /\ UNCHANGED mProcessMap

pushBack(v) ==
    /\ ~crashed
    /\ LET f == fit(mNumSamples, push_back(mSamples, v))
       IN  /\ mNumSamples' = f.mNumSamples
           /\ mSamples' = f.mSamples
    /\ last' = Call("pushBack", 0, 0, v, "none", "none", 0, <<>>)
    /\ pre' = Fields
    /\ pushed' = Remember(v)
    /\ UNCHANGED <<mProcessMap, crashed>>

\* ---------------------------------------------------------------- process registry
setProcess(index, func) ==
    /\ ~crashed
    /\ mProcessMap' = MapSet(mProcessMap, index, func)
    /\ last' = Call("setProcess", index, 0, 0, func, "none", 0, <<>>)
    /\ pre' = Fields
    /\ pushed' = <<>>
    /\ UNCHANGED <<mNumSamples, mSamples, crashed>>

\* process( index, func ): setProcess, returning *this for chaining.
process(index, func) ==
    /\ ~crashed
    /\ mProcessMap' = MapSet(mProcessMap, index, func)
    /\ last' = Call("process", index, 0, 0, func, "none", 0, <<>>)
    /\ pre' = Fields
    /\ pushed' = <<>>
    /\ UNCHANGED <<mNumSamples, mSamples, crashed>>

\* clearProcesses clearing the wrong member as well: mSamples.clear().
clearProcessesAndSamples ==
    /\ ~crashed
    /\ mProcessMap' = EmptyMap
    /\ mSamples' = <<>>
    /\ last' = Call("clearProcesses", 0, 0, 0, "none", "none", 0, <<>>)
    /\ pre' = Fields
    /\ pushed' = <<>>
    /\ UNCHANGED <<mNumSamples, crashed>>

clearProcesses ==
    /\ ~crashed
    /\ mProcessMap' = EmptyMap
    /\ last' = Call("clearProcesses", 0, 0, 0, "none", "none", 0, <<>>)
    /\ pre' = Fields
    /\ pushed' = <<>>
    /\ UNCHANGED <<mNumSamples, mSamples, crashed>>

\* eraseProcessMap erasing too much: every entry goes with the one at index.
eraseProcessMapAll(m, index) == IF index \in DOMAIN m THEN EmptyMap ELSE m

\* What eraseProcess leaves in the map.
eraseProcessMap(m, index) == IF index \in DOMAIN m THEN MapErase(m, index) ELSE m

\* eraseProcessExc with the throw in an else branch: only an absent index throws.
eraseProcessExcElse(m, index) == IF index \in DOMAIN m THEN "none" ELSE "ExcProcNotFound"

\* What eraseProcess throws, given the map it was called on.
eraseProcessExc(m, index) == "ExcProcNotFound"

eraseProcess(index) ==
    /\ ~crashed
    /\ mProcessMap' = eraseProcessMap(mProcessMap, index)
    /\ last' = Call("eraseProcess", index, 0, 0, "none",
                    eraseProcessExc(mProcessMap, index), 0, <<>>)
    /\ pre' = Fields
    /\ pushed' = <<>>
    /\ UNCHANGED <<mNumSamples, mSamples, crashed>>

\* getProcessOutcome with runProcess's nullptr test: an empty function throws.
getProcessChecked(m, index) ==
    IF index \in DOMAIN m
    THEN IF m[index] # "nullptr"
         THEN [exc |-> "none", func |-> m[index]]
         ELSE [exc |-> "ExcProcUndefined", func |-> "none"]
    ELSE [exc |-> "ExcProcNotFound", func |-> "none"]

\* The outcome of getProcess( index ) on map m: what it throws, what it returns.
getProcessOutcome(m, index) ==
    IF index \in DOMAIN m
    THEN [exc |-> "none", func |-> m[index]]
    ELSE [exc |-> "ExcProcNotFound", func |-> "none"]

\* getProcess( index ): the function at index, or ExcProcNotFound.
getProcess(index) ==
    /\ ~crashed
    /\ LET o == getProcessOutcome(mProcessMap, index)
       IN  last' = Call("getProcess", index, 0, 0, o.func, o.exc, 0, <<>>)
    /\ pre' = Fields
    /\ pushed' = <<>>
    /\ UNCHANGED <<mNumSamples, mSamples, mProcessMap, crashed>>

\* runProcessOutcome without the nullptr test: an empty function is invoked,
\* and std::function throws std::bad_function_call.
runProcessUnchecked(m, s, index) ==
    IF index \in DOMAIN m
    THEN IF m[index] # "nullptr"
         THEN [exc |-> "none", ret |-> Invoke(m[index], s), invoked |-> <<index>>]
         ELSE [exc |-> "bad_function_call", ret |-> 0, invoked |-> <<index>>]
    ELSE [exc |-> "ExcProcNotFound", ret |-> 0, invoked |-> <<>>]

\* runProcessOutcome calling the function twice: once to test it, once to return.
runProcessTwice(m, s, index) ==
    IF index \in DOMAIN m
    THEN IF m[index] # "nullptr"
         THEN [exc |-> "none", ret |-> Invoke(m[index], s), invoked |-> <<index, index>>]
         ELSE [exc |-> "ExcProcUndefined", ret |-> 0, invoked |-> <<>>]
    ELSE [exc |-> "ExcProcNotFound", ret |-> 0, invoked |-> <<>>]

\* The outcome of runProcess( index ) on map m and samples s: what it throws,
\* what it returns, which ids it invokes.
runProcessOutcome(m, s, index) ==
    IF index \in DOMAIN m
    THEN IF m[index] # "nullptr"
         THEN [exc |-> "none", ret |-> Invoke(m[index], s), invoked |-> <<index>>]
         ELSE [exc |-> "ExcProcUndefined", ret |-> 0, invoked |-> <<>>]
    ELSE [exc |-> "ExcProcNotFound", ret |-> 0, invoked |-> <<>>]

runProcess(index) ==
    /\ ~crashed
    /\ LET o == runProcessOutcome(mProcessMap, mSamples, index)
       IN  last' = Call("runProcess", index, 0, 0, "none", o.exc, o.ret, o.invoked)
    /\ pre' = Fields
    /\ pushed' = <<>>
    /\ UNCHANGED <<mNumSamples, mSamples, mProcessMap, crashed>>

\* ---------------------------------------------------------------- specification
\* A call on the one sampler of Spec: there is no second object to touch.
Single == UNCHANGED <<other, otherPre, calls>>

Next ==
    \/ \E n \in Caps : setNumSamples(n) /\ Single
    \/ getNumSamples /\ Single
    \/ clearSamples /\ Single
    \/ \E i \in Indexes : eraseSample(i) /\ Single
    \/ \E i \in Indexes, v \in Values : insertSampleInRange(i, v) /\ Single
    \/ \E i \in Indexes, v \in Values : insertSampleUndefined(i, v) /\ Single
    \/ \E v \in Values : pushBack(v) /\ Single
    \/ \E i \in Ids, f \in Funcs : setProcess(i, f) /\ Single
    \/ \E i \in Ids, f \in Funcs : process(i, f) /\ Single
    \/ clearProcesses /\ Single
    \/ \E i \in Ids : eraseProcess(i) /\ Single
    \/ \E i \in Ids : getProcess(i) /\ Single
    \/ \E i \in Ids : runProcess(i) /\ Single

Spec == Init /\ [][Next]_vars

\* ---------------------------------------------------------------- copying
\* operator= without the last assignment: mSamples is not copied.
operatorAssignNoSamples(lhs, rhs) ==
    [mNumSamples |-> rhs.mNumSamples,
     mProcessMap |-> rhs.mProcessMap,
     mSamples    |-> lhs.mSamples]

\* operator=( rhs ) on an object with fields lhs: its fields afterwards.
operatorAssign(lhs, rhs) ==
    [mNumSamples |-> rhs.mNumSamples,
     mProcessMap |-> rhs.mProcessMap,
     mSamples    |-> rhs.mSamples]

\* The windows a sampler of capacity n can hold: fit() keeps size <= n, and
\* pushBack and eraseSample reach every such vector.
Windows(n) == UNION {[1..k -> Values] : k \in 0..n}

\* The maps setProcess and eraseProcess reach.
Maps == UNION {[d -> Funcs] : d \in SUBSET Ids}

\* SamplerT( const SamplerT& rhs ): the members are default-initialised
\* (mNumSamples indeterminate, the containers empty), then *this = rhs.  The
\* state is the one right after other was copy-constructed from a sampler in
\* any state it can be in.
CopyInit ==
    /\ mNumSamples \in CopyCaps
    /\ mSamples \in Windows(mNumSamples)
    /\ mProcessMap \in Maps
    /\ crashed = FALSE
    /\ \E g \in CopyCaps :
          other = operatorAssign([mNumSamples |-> g, mSamples |-> <<>>,
                                  mProcessMap |-> EmptyMap],
                                 [mNumSamples |-> mNumSamples, mSamples |-> mSamples,
                                  mProcessMap |-> mProcessMap])
    /\ otherPre = other
    /\ last = [op |-> "SamplerT(rhs)", index |-> 0, n |-> 0, v |-> 0,
               func |-> "none", exc |-> "none", ret |-> 0, invoked |-> <<>>,
               prior |-> NoCall]
    /\ pre = [mNumSamples |-> mNumSamples, mSamples |-> mSamples,
              mProcessMap |-> mProcessMap]
    /\ pushed = <<>>
    /\ calls = 0

\* A call on the original while the copy exists.
OnThis ==
    /\ calls < MaxCopyCalls
    /\ calls' = calls + 1
    /\ otherPre' = other
    /\ UNCHANGED other

\* A call on the copy: the history of the call, the original's fields untouched.
OnOther(op, index, n, v, func, exc) ==
    /\ calls < MaxCopyCalls
    /\ calls' = calls + 1
    /\ otherPre' = other
    /\ last' = Call(op, index, n, v, func, exc, 0, <<>>)
    /\ pre' = Fields
    /\ pushed' = <<>>
    /\ UNCHANGED <<mNumSamples, mSamples, mProcessMap, crashed>>

\* *this = other
assignFromOther ==
    /\ ~crashed
    /\ calls < MaxCopyCalls
    /\ calls' = calls + 1
    /\ LET f == operatorAssign(Fields, other)
       IN  /\ mNumSamples' = f.mNumSamples
           /\ mProcessMap' = f.mProcessMap
           /\ mSamples' = f.mSamples
    /\ last' = Call("operator=", 0, 0, 0, "none", "none", 0, <<>>)
    /\ pre' = Fields
    /\ pushed' = <<>>
    /\ otherPre' = other
    /\ UNCHANGED <<other, crashed>>

\* other = *this
assignToOther ==
    /\ ~crashed
    /\ other' = operatorAssign(other, Fields)
    /\ OnOther("other.operator=", 0, 0, 0, "none", "none")

\* other.pushBack( v )
otherPushBack(v) ==
    /\ ~crashed
    /\ LET f == fit(other.mNumSamples, push_back(other.mSamples, v))
       IN  other' = [other EXCEPT !.mNumSamples = f.mNumSamples, !.mSamples = f.mSamples]
    /\ OnOther("other.pushBack", 0, 0, v, "none", "none")

\* other.setNumSamples( numSamples )
otherSetNumSamples(numSamples) ==
    /\ ~crashed
    /\ LET f == fit(numSamples, other.mSamples)
       IN  other' = [other EXCEPT !.mNumSamples = f.mNumSamples, !.mSamples = f.mSamples]
    /\ OnOther("other.setNumSamples", 0, numSamples, 0, "none", "none")

\* other.clearSamples()
otherClearSamples ==
    /\ ~crashed
    /\ other' = [other EXCEPT !.mSamples = <<>>]
    /\ OnOther("other.clearSamples", 0, 0, 0, "none", "none")

\* other.setProcess( index, func )
otherSetProcess(index, func) ==
    /\ ~crashed
    /\ other' = [other EXCEPT !.mProcessMap = MapSet(other.mProcessMap, index, func)]
    /\ OnOther("other.setProcess", index, 0, 0, func, "none")

\* other.eraseProcess( index )
otherEraseProcess(index) ==
    /\ ~crashed
    /\ other' = [other EXCEPT !.mProcessMap = eraseProcessMap(other.mProcessMap, index)]
    /\ OnOther("other.eraseProcess", index, 0, 0, "none",
               eraseProcessExc(other.mProcessMap, index))

CopyNext ==
    \/ \E n \in CopyCaps : OnThis /\ setNumSamples(n)
    \/ OnThis /\ clearSamples
    \/ \E v \in Values : OnThis /\ pushBack(v)
    \/ \E i \in Ids, f \in Funcs : OnThis /\ setProcess(i, f)
    \/ \E i \in Ids : OnThis /\ eraseProcess(i)
    \/ assignFromOther
    \/ assignToOther
    \/ \E v \in Values : otherPushBack(v)
    \/ \E n \in CopyCaps : otherSetNumSamples(n)
    \/ otherClearSamples
    \/ \E i \in Ids, f \in Funcs : otherSetProcess(i, f)
    \/ \E i \in Ids : otherEraseProcess(i)

CopySpec == CopyInit /\ [][CopyNext]_vars

\* ---------------------------------------------------------------- properties
Max(a, b) == IF a >= b THEN a ELSE b

\* The last k elements of s, in order.
LastN(s, k) == SubSeq(s, Len(s) - k + 1, Len(s))

FitCalls == {"setNumSamples", "pushBack"}
RegistryCalls ==
    {"setProcess", "process", "clearProcesses", "eraseProcess", "getProcess", "runProcess"}

C2_WindowIsLastPushed ==
    (last.op = "pushBack" /\ Len(pushed) >= mNumSamples)
        => mSamples = LastN(pushed, mNumSamples)

\* C2 witness: more values than the capacity (at least 2) were pushed in a row,
\* the last two of them different.
C2_Witness ==
    /\ last.op = "pushBack"
    /\ mNumSamples >= 2
    /\ Len(pushed) > mNumSamples
    /\ pushed[Len(pushed)] # pushed[Len(pushed) - 1]
    /\ pushed[1] # pushed[2]

\* C3, as stated: a sampler constructed with capacity n and not yet touched has
\* a window of n default values.
C3_ConstructedWindowIsDefaults ==
    last.op = "SamplerT" => mSamples = Defaults(last.n)

\* C4, as stated: the capacity is at least 1 in every state, and is reported so
\* by getNumSamples.
C4_CapacityAtLeastOne ==
    /\ mNumSamples >= 1
    /\ last.op = "getNumSamples" => last.ret >= 1

\* C5: setNumSamples( n ) on a window longer than n leaves the last max(1, n)
\* elements of the previous window, in order.
C5_ShrinkKeepsBack ==
    (last.op = "setNumSamples" /\ Len(pre.mSamples) > last.n)
        => mSamples = LastN(pre.mSamples, Max(1, last.n))

\* C5 witness: a window whose first and last elements differ was cut by two or
\* more elements.
C5_Witness ==
    /\ last.op = "setNumSamples"
    /\ last.n >= 1
    /\ Len(pre.mSamples) >= last.n + 2
    /\ pre.mSamples[1] # pre.mSamples[Len(pre.mSamples)]
    /\ Len(mSamples) = last.n

\* C6: setNumSamples( n ) on a window shorter than n leaves n - m default values
\* followed by the previous window, in order.
C6_GrowPadsFront ==
    (last.op = "setNumSamples" /\ Len(pre.mSamples) < last.n)
        => mSamples = Defaults(last.n - Len(pre.mSamples)) \o pre.mSamples

\* C6 witness: a window of two or more non-default values was grown.
C6_Witness ==
    /\ last.op = "setNumSamples"
    /\ Len(pre.mSamples) >= 2
    /\ Len(pre.mSamples) < last.n
    /\ \A i \in 1..Len(pre.mSamples) : pre.mSamples[i] # Default
    /\ mSamples[1] = Default

\* C7: runProcess( index ) throws ExcProcNotFound when the map has no entry at
\* index, ExcProcUndefined when the entry is an empty function, and otherwise
\* returns what the function at index computes; it leaves the map, the window
\* and the capacity as they were.
C7_RunProcessOutcomes ==
    last.op = "runProcess" =>
        /\ Fields = pre
        /\ last.index \notin DOMAIN pre.mProcessMap =>
              /\ last.exc = "ExcProcNotFound"
              /\ last.invoked = <<>>
        /\ last.index \in DOMAIN pre.mProcessMap =>
              /\ pre.mProcessMap[last.index] = "nullptr" =>
                    /\ last.exc = "ExcProcUndefined"
                    /\ last.invoked = <<>>
              /\ pre.mProcessMap[last.index] = "fSize" =>
                    /\ last.exc = "none"
                    /\ last.ret = Len(pre.mSamples)
              /\ pre.mProcessMap[last.index] = "fSum" =>
                    /\ last.exc = "none"
                    /\ last.ret = Sum(pre.mSamples)

\* C7 witness: runProcess found an empty function at index and threw
\* ExcProcUndefined, with a callable registered at another id.
C7_Witness ==
    /\ last.op = "runProcess"
    /\ last.index \in DOMAIN mProcessMap
    /\ mProcessMap[last.index] = "nullptr"
    /\ last.exc = "ExcProcUndefined"
    /\ \E i \in DOMAIN mProcessMap : mProcessMap[i] # "nullptr"

\* C8: every call of eraseProcess throws ExcProcNotFound, also the call that
\* found an entry at index and removed it; the entry is gone either way.
C8_EraseProcessAlwaysThrows ==
    last.op = "eraseProcess" =>
        /\ last.exc = "ExcProcNotFound"
        /\ last.index \notin DOMAIN mProcessMap

\* C8 witness: eraseProcess removed an entry that was present and threw.
C8_Witness ==
    /\ last.op = "eraseProcess"
    /\ last.index \in DOMAIN pre.mProcessMap
    /\ last.index \notin DOMAIN mProcessMap
    /\ last.exc = "ExcProcNotFound"

\* C9: after eraseProcess( index ) the map has no entry at index and the same
\* entry as before at every other id; with no entry at index before the call,
\* the map is unchanged.
C9_EraseProcessFrame ==
    last.op = "eraseProcess" =>
        /\ DOMAIN mProcessMap = (DOMAIN pre.mProcessMap) \ {last.index}
        /\ \A i \in DOMAIN mProcessMap : mProcessMap[i] = pre.mProcessMap[i]
        /\ last.index \notin DOMAIN pre.mProcessMap => mProcessMap = pre.mProcessMap

\* C9 witness: eraseProcess removed one of two entries and the other, a
\* callable, is still there.
C9_Witness ==
    /\ last.op = "eraseProcess"
    /\ last.index \in DOMAIN pre.mProcessMap
    /\ \E i \in DOMAIN mProcessMap : i # last.index /\ mProcessMap[i] = "fSum"

\* C10: setProcess( index, func ) (and process, which forwards to it) throws
\* nothing, leaves func at index whether or not an entry was there, and leaves
\* every other entry alone; runProcess( index ) called next returns what func
\* computes when func is callable.
C10_SetProcessThenRun ==
    /\ last.op \in {"setProcess", "process"} =>
          /\ last.exc = "none"
          /\ DOMAIN mProcessMap = (DOMAIN pre.mProcessMap) \cup {last.index}
          /\ mProcessMap[last.index] = last.func
          /\ \A i \in (DOMAIN pre.mProcessMap) \ {last.index} :
                mProcessMap[i] = pre.mProcessMap[i]
    /\ (/\ last.op = "runProcess"
        /\ last.prior.op \in {"setProcess", "process"}
        /\ last.prior.index = last.index
        /\ last.prior.func # "nullptr")
          => /\ last.exc = "none"
             /\ last.invoked = <<last.index>>
             /\ last.ret = IF last.prior.func = "fSize"
                           THEN Len(mSamples) ELSE Sum(mSamples)

\* C10 witness: runProcess ran right after setProcess registered fSum at the
\* same id, over a window that sums to 2 or more.
C10_Witness ==
    /\ last.op = "runProcess"
    /\ last.prior.op = "setProcess"
    /\ last.prior.index = last.index
    /\ last.prior.func = "fSum"
    /\ last.exc = "none"
    /\ last.ret >= 2

SampleCalls == {"setNumSamples", "clearSamples", "eraseSample", "insertSample", "pushBack"}

\* C11: eraseSample( index ) with index >= size leaves the window, the capacity
\* and the map unchanged and throws nothing; with index < size it removes the
\* element at index and keeps the others in order.
C11_EraseSampleLenient ==
    last.op = "eraseSample" =>
        /\ last.exc = "none"
        /\ last.index >= Len(pre.mSamples) => Fields = pre
        /\ last.index < Len(pre.mSamples) =>
              /\ Len(mSamples) = Len(pre.mSamples) - 1
              /\ \A i \in 1..Len(mSamples) :
                    mSamples[i] = IF i <= last.index THEN pre.mSamples[i]
                                  ELSE pre.mSamples[i + 1]

\* C11 witness: eraseSample removed an element from the middle of a window
\* whose first element differs from the one removed.
C11_Witness ==
    /\ last.op = "eraseSample"
    /\ last.index >= 1
    /\ last.index + 1 < Len(pre.mSamples)
    /\ pre.mSamples[1] # pre.mSamples[last.index + 1]

\* C12, as stated: insertSample( index, v ) with index > size leaves the window
\* unchanged and raises no error.
C12_InsertOutOfRangeIgnored ==
    (last.op = "insertSample" /\ last.index > Len(pre.mSamples))
        => /\ ~crashed
           /\ last.exc = "none"
           /\ mSamples = pre.mSamples

\* C14: clearSamples leaves the window empty and the capacity as it was; the
\* setNumSamples( n ) called next leaves max(1, n) default values.
C14_ClearThenSetNumSamples ==
    /\ last.op = "clearSamples" =>
          /\ mSamples = <<>>
          /\ mNumSamples = pre.mNumSamples
    /\ (last.op = "setNumSamples" /\ last.prior.op = "clearSamples")
          => /\ pre.mSamples = <<>>
             /\ mSamples = Defaults(Max(1, last.n))

\* C14 witness: setNumSamples( n ), n >= 2, ran right after clearSamples.
C14_Witness ==
    /\ last.op = "setNumSamples"
    /\ last.prior.op = "clearSamples"
    /\ last.n >= 2
    /\ Len(mSamples) = last.n

\* C15: getProcess( index ) throws ExcProcNotFound exactly when the map has no
\* entry at index; an entry that is an empty function is returned without an
\* exception; the map, the window and the capacity are left as they were.
C15_GetProcessOutcomes ==
    last.op = "getProcess" =>
        /\ Fields = pre
        /\ last.exc = "ExcProcNotFound" <=> last.index \notin DOMAIN pre.mProcessMap
        /\ last.index \in DOMAIN pre.mProcessMap =>
              /\ last.exc = "none"
              /\ last.func = pre.mProcessMap[last.index]

\* C15 witness: getProcess returned an empty function.
C15_Witness ==
    /\ last.op = "getProcess"
    /\ last.exc = "none"
    /\ last.func = "nullptr"

\* C16: a runProcess( index ) that returns has invoked the function at index
\* once and no other; a runProcess that throws has invoked none; no other
\* operation invokes any.
C16_RunProcessInvokesOnce ==
    /\ (last.op = "runProcess" /\ last.exc = "none") => last.invoked = <<last.index>>
    /\ (last.op = "runProcess" /\ last.exc # "none") => last.invoked = <<>>
    /\ last.op # "runProcess" => last.invoked = <<>>

\* C16 witness: runProcess returned with two callables registered.
C16_Witness ==
    /\ last.op = "runProcess"
    /\ last.exc = "none"
    /\ last.invoked = <<last.index>>
    /\ \A i \in Ids : i \in DOMAIN mProcessMap /\ mProcessMap[i] # "nullptr"

\* C17: right after pushBack, setNumSamples, or insertSample with index <= size,
\* from any state, the capacity is at least 1 and the window is exactly that
\* long; after pushBack( v ) the last element is v.
C17_FitRestores ==
    /\ (~crashed /\ (\/ last.op \in {"pushBack", "setNumSamples"}
                     \/ last.op = "insertSample" /\ last.index <= Len(pre.mSamples)))
          => /\ mNumSamples >= 1
             /\ Len(mSamples) = mNumSamples
    /\ last.op = "pushBack" => mSamples[Len(mSamples)] = last.v

\* C17 witness: pushBack of a non-default value onto a window left empty, with
\* a capacity of 2 or more.
C17_Witness ==
    /\ last.op = "pushBack"
    /\ pre.mSamples = <<>>
    /\ pre.mNumSamples >= 2
    /\ last.v # Default
    /\ Len(mSamples) = pre.mNumSamples

\* C18, as stated: on a window with size = capacity, insertSample( 0, v ) leaves
\* the window as it was, and insertSample( i, v ), 1 <= i <= size, leaves the old
\* elements 1..i-1, then v, then the old elements i..size-1.
C18_InsertOnFullWindow ==
    (/\ last.op = "insertSample"
     /\ Len(pre.mSamples) = pre.mNumSamples
     /\ last.index <= Len(pre.mSamples))
        => mSamples = IF last.index = 0 THEN pre.mSamples
                      ELSE SubSeq(pre.mSamples, 2, last.index) \o <<last.v>>
                           \o SubSeq(pre.mSamples, last.index + 1, Len(pre.mSamples))

C20_SetNumSamplesIdempotent ==
    /\ (/\ last.op = "setNumSamples"
        /\ last.prior.op = "setNumSamples"
        /\ last.prior.n = last.n) => Fields = pre
    /\ (/\ last.op = "setNumSamples"
        /\ last.n >= 1
        /\ pre.mNumSamples = last.n
        /\ Len(pre.mSamples) = last.n) => Fields = pre

\* C20 witness: setNumSamples( n ) ran twice in a row on a window holding a
\* non-default value at its front.
C20_Witness ==
    /\ last.op = "setNumSamples"
    /\ last.prior.op = "setNumSamples"
    /\ last.prior.n = last.n
    /\ last.n >= 2
    /\ mSamples[1] # Default

ThisCalls == {"setNumSamples", "clearSamples", "pushBack", "setProcess", "eraseProcess"}
OtherCalls ==
    {"other.setNumSamples", "other.clearSamples", "other.pushBack",
     "other.setProcess", "other.eraseProcess"}

\* C13: a copy (by the copy constructor or by operator=, in either direction)
\* has the capacity, window and map of its source, and the source is not
\* changed by the copying; a later call on the copy leaves the original's
\* capacity, window and map as they were, and a later call on the original
\* leaves the copy's as they were.
C13_CopyIndependent ==
    /\ last.op \in {"SamplerT(rhs)", "other.operator="} =>
          /\ other = Fields
          /\ Fields = pre
    /\ last.op = "operator=" =>
          /\ Fields = other
          /\ other = otherPre
    /\ last.op \in OtherCalls => Fields = pre
    /\ last.op \in ThisCalls => other = otherPre

\* C13 witness: after the copy of a sampler with a full window of two or more
\* elements and a registered callable was taken, pushBack on the copy changed
\* the copy's window, which now differs from the original's.
C13_Witness ==
    /\ last.op = "other.pushBack"
    /\ other # otherPre
    /\ Len(mSamples) >= 2
    /\ Len(mSamples) = mNumSamples
    /\ other.mSamples # mSamples
    /\ other.mProcessMap = mProcessMap
    /\ \E i \in DOMAIN mProcessMap : mProcessMap[i] # "nullptr"
    /\ Fields = pre

====
